---- MODULE Spec2Model ----
(***************************************************************************)
(* Rate limiter (supabase/functions/_shared/rateLimit.ts), the             *)
(* request_logs table with its row-level security and retention trigger,   *)
(* the text-to-speech and ingestPoster edge handlers, the overlay          *)
(* creator's save, the text removal tool's resize and inpainting, the      *)
(* image editor's background removal, LoginGate and the registration       *)
(* editor.                                                                 *)
(*                                                                         *)
(* Time is in milliseconds, as Date.now() gives it.  The handler's clock   *)
(* and the database's now() are one clock.                                 *)
(***************************************************************************)
EXTENDS Integers, Sequences, FiniteSets, Bags, TLC

VARIABLES
  now,      \* the clock, ms
  store,    \* public.request_logs: a bag of rows [user_id, endpoint, created_at]
  rl,       \* the last direct checkRateLimit call and what it returned
  tiles,    \* objects of the storage bucket 'tiles' (poster ids)
  posters,  \* rows of public.posters (poster ids)
  req,      \* the last request an edge handler received
  resp,     \* the response it gave, and the stages it ran
  sent,     \* history: authenticated text-to-speech requests [user, at]
  overlayFiles, \* objects of the storage bucket 'overlays' (file paths)
  overlays,     \* rows of public.overlays [file_path, z_index]
  saved,        \* the last handleSave of the overlay creator and what it did
  tool,         \* the text removal tool / image editor: sizes, image data, regions
  flight,       \* text-to-speech invocations between their check and their log
  archive,      \* history: every row ever inserted into request_logs
  editor,       \* the image editor's background removal: image data, mask, output
  gate,         \* LoginGate, the auth client behind it and what is on its way
  reg           \* the registration editor and the base-map record it writes

serverVars == <<now, store, rl, tiles, posters, req, resp, sent, flight, archive>>
clientVars == <<overlayFiles, overlays, saved, tool, editor, gate, reg>>
vars == <<now, store, rl, tiles, posters, req, resp, sent, flight, archive,
          overlayFiles, overlays, saved, tool, editor, gate, reg>>

(***************************************************************************)
(* Bounds of the model.                                                    *)
(***************************************************************************)
MaxClock == 60001
MaxLog == 6
MaxLogEdge == 2
MaxLogTts == 21
MaxSent == 21
MaxTiles == 1
MaxSweepClock == 7200001
MaxLogSweep == 3
MaxOverlayFiles == 2
MaxRegions == 2
MaxShades == 2
MaskScale == 4
MaxFlights == 2
MaxAdmitted == 21
MaxInbox == 2

ClockSteps == {60000, 60001}

Subjects == {"u1", "u2"}
NoUser == "none"

(***************************************************************************)
(* The policy table.                                                       *)
(***************************************************************************)
PolicyEndpoints == {"historian-qa", "overlay-artist", "text-to-speech"}

RATE_LIMITS ==
  [e \in PolicyEndpoints |->
     CASE e = "historian-qa"   -> [requests |-> 10, window |-> 60]
       [] e = "overlay-artist" -> [requests |-> 5,  window |-> 60]
       [] e = "text-to-speech" -> [requests |-> 20, window |-> 60]]

\* an endpoint name with no entry in RATE_LIMITS
Endpoints == PolicyEndpoints \cup {"ingestPoster"}

Max(a, b) == IF a >= b THEN a ELSE b

(***************************************************************************)
(* Store clients.  createClient(url, SERVICE_ROLE_KEY) bypasses row-level  *)
(* security; createClient(url, ANON_KEY, Authorization: <jwt>) acts as the *)
(* user the token names (auth.uid()), or as nobody without a valid token.  *)
(***************************************************************************)
ServiceClient == [role |-> "service_role", uid |-> NoUser]
UserClient(u) == [role |-> IF u = NoUser THEN "anon" ELSE "authenticated", uid |-> u]

\* the outcome of one round trip to the store, apart from access rules
StoreFaults == {"ok", "error", "throw"}

(***************************************************************************)
(* request_logs: row-level security is enabled and the one policy is       *)
(* FOR SELECT USING (auth.uid() = user_id).                                *)
(***************************************************************************)
RlsSelectVisible(client, row) ==
  \/ client.role = "service_role"
  \/ client.uid # NoUser /\ client.uid = row.user_id

RlsInsertAllowedOpen(client, row) == TRUE

\* no policy FOR INSERT exists: only a client that bypasses RLS may insert
RlsInsertAllowed(client, row) == client.role = "service_role"

RetentionMs == 3600000

delete_old_request_logsNever(s, t) == s

\* a sweep that keeps half a minute
delete_old_request_logsHalfMinute(s, t) ==
  LET keep == {r \in DOMAIN s : ~(r.created_at < t - 30000)}
  IN  [r \in keep |-> s[r]]

\* trigger cleanup_request_logs AFTER INSERT: DELETE ... WHERE created_at < now() - '1 hour'
delete_old_request_logs(s, t) ==
  LET keep == {r \in DOMAIN s : ~(r.created_at < t - RetentionMs)}
  IN  [r \in keep |-> s[r]]

\* INSERT INTO request_logs (user_id, endpoint): created_at DEFAULT now(),
\* then the statement's AFTER INSERT trigger.  Returns the table.
InsertLog(s, userId, endpoint, client, fault, t) ==
  LET row == [user_id |-> userId, endpoint |-> endpoint, created_at |-> t]
  IN  IF fault = "ok" /\ RlsInsertAllowed(client, row)
        THEN delete_old_request_logs(s (+) SetToBag({row}), t)
        ELSE s

\* SELECT id ... WHERE user_id = .. AND endpoint = .. AND created_at >= windowStart:
\* the number of rows returned to the client
SelectCountNoWindow(s, userId, endpoint, windowStart, client) ==
  LET hit == {r \in DOMAIN s : /\ RlsSelectVisible(client, r)
                                /\ r.user_id = userId
                                /\ r.endpoint = endpoint}
  IN  BagCardinality([r \in hit |-> s[r]])

\* a count over every endpoint of the user
SelectCountAnyEndpoint(s, userId, endpoint, windowStart, client) ==
  LET hit == {r \in DOMAIN s : /\ RlsSelectVisible(client, r)
                                /\ r.user_id = userId
                                /\ r.created_at >= windowStart}
  IN  BagCardinality([r \in hit |-> s[r]])

SelectCount(s, userId, endpoint, windowStart, client) ==
  LET hit == {r \in DOMAIN s : /\ RlsSelectVisible(client, r)
                                /\ r.user_id = userId
                                /\ r.endpoint = endpoint
                                /\ r.created_at >= windowStart}
  IN  BagCardinality([r \in hit |-> s[r]])

(***************************************************************************)
(* checkRateLimit(userId, endpoint, supabase): fault is what the store     *)
(* does with the query.  threw: whether the call throws to its caller.     *)
(***************************************************************************)
FailOpen == [allowed |-> TRUE, remaining |-> 999, threw |-> FALSE]

checkRateLimitFailClosed(userId, endpoint, client, fault, s, t) ==
  IF endpoint \notin DOMAIN RATE_LIMITS
    THEN FailOpen
    ELSE LET limit == RATE_LIMITS[endpoint]
             windowStart == t - limit.window * 1000
             count == SelectCount(s, userId, endpoint, windowStart, client)
         IN  IF fault = "throw" THEN [allowed |-> FALSE, remaining |-> 0, threw |-> TRUE]
             ELSE IF fault = "error" THEN [allowed |-> FALSE, remaining |-> 0, threw |-> FALSE]
             ELSE [allowed   |-> count < limit.requests,
                   remaining |-> Max(0, limit.requests - count),
                   threw     |-> FALSE]

checkRateLimitOffByOne(userId, endpoint, client, fault, s, t) ==
  IF endpoint \notin DOMAIN RATE_LIMITS
    THEN FailOpen
    ELSE LET limit == RATE_LIMITS[endpoint]
             windowStart == t - limit.window * 1000
             count == SelectCount(s, userId, endpoint, windowStart, client)
         IN  IF fault # "ok" THEN FailOpen
             ELSE [allowed   |-> count <= limit.requests,
                   remaining |-> Max(0, limit.requests - count),
                   threw     |-> FALSE]

checkRateLimitDefaultPolicy(userId, endpoint, client, fault, s, t) ==
  LET limit == IF endpoint \in DOMAIN RATE_LIMITS THEN RATE_LIMITS[endpoint]
                                                  ELSE [requests |-> 5, window |-> 60]
      windowStart == t - limit.window * 1000
      count == SelectCount(s, userId, endpoint, windowStart, client)
  IN  IF fault # "ok" THEN FailOpen
      ELSE [allowed   |-> count < limit.requests,
            remaining |-> Max(0, limit.requests - count),
            threw     |-> FALSE]

checkRateLimitNoClamp(userId, endpoint, client, fault, s, t) ==
  IF endpoint \notin DOMAIN RATE_LIMITS
    THEN FailOpen
    ELSE LET limit == RATE_LIMITS[endpoint]
             windowStart == t - limit.window * 1000
             count == SelectCount(s, userId, endpoint, windowStart, client)
         IN  IF fault # "ok" THEN FailOpen
             ELSE [allowed   |-> count < limit.requests,
                   remaining |-> limit.requests - count,
                   threw     |-> FALSE]

checkRateLimit(userId, endpoint, client, fault, s, t) ==
  IF endpoint \notin DOMAIN RATE_LIMITS
    THEN FailOpen
    ELSE LET limit == RATE_LIMITS[endpoint]
             windowStart == t - limit.window * 1000
             count == SelectCount(s, userId, endpoint, windowStart, client)
         IN  IF fault = "throw" THEN FailOpen      \* catch (error)
             ELSE IF fault = "error" THEN FailOpen \* if (error)
             ELSE [allowed   |-> count < limit.requests,
                   remaining |-> Max(0, limit.requests - count),
                   threw     |-> FALSE]

(***************************************************************************)
(* logRequest(userId, endpoint, supabase): the insert's returned error is  *)
(* not read and a thrown one is caught; returns the table afterwards.      *)
(***************************************************************************)
logRequest(userId, endpoint, client, fault, s, t) ==
  InsertLog(s, userId, endpoint, client, fault, t)

logRequestRethrows(fault) == fault = "throw"

\* whether logRequest throws to its caller: try { await insert } catch { log }
logRequestThrows(fault) == FALSE

(***************************************************************************)
(* Requests to the edge handlers.  A request is what the client sends      *)
(* (method, credential, body) together with what the handler's             *)
(* collaborators do while it is served.  errText is the message text of    *)
(* the underlying error, when one occurs.                                  *)
(***************************************************************************)
ErrTexts == {"e1", "e2"}
Creds == {NoUser} \cup Subjects

\* user_roles: the subjects holding a row with role = 'admin'
Admins == {"u1"}

TtsFields == {"text", "voiceId"}
IngestFields == {"title", "filename", "bytes"}

\* body.json: whether req.json() parses it; body.has: the fields that are truthy
Body(json, has) == [json |-> json, has |-> has]
Malformed == Body(FALSE, {})
TtsBodies == {Body(TRUE, {"text"}), Body(TRUE, {"voiceId"}), Body(TRUE, TtsFields)}
IngestBodies == {Body(TRUE, {"title", "filename"}), Body(TRUE, {"filename", "bytes"}),
                 Body(TRUE, IngestFields)}

BaseReq(h) ==
  [handler |-> h, method |-> "POST", cred |-> NoUser, body |-> Malformed,
   rlFault |-> "ok", logFault |-> "ok", apiKey |-> TRUE, upstream |-> "ok",
   roleFault |-> "ok", upload |-> "ok", insert |-> "ok", errText |-> "e1"]

corsHeaders == TRUE

\* a Response, with what the handler did to produce it:
\*   stages: the steps it ran, in order;  rate: what checkRateLimit returned;
\*   calls: upstream speech-API calls made;  errObj: an error object was at hand;
\*   wrote, uploaded, inserted: whether serving it added a request_logs row,
\*   a storage object, a posters row (filled in when the request is served)
Response(status, ctype, error, remaining, payload, stages, rate, calls, errObj) ==
  [status |-> status, cors |-> corsHeaders, ctype |-> ctype, error |-> error,
   remaining |-> remaining, payload |-> payload, stages |-> stages, rate |-> rate,
   calls |-> calls, errObj |-> errObj,
   wrote |-> FALSE, uploaded |-> FALSE, inserted |-> FALSE]

NoRate == [allowed |-> TRUE, remaining |-> -1, threw |-> FALSE]
NoResp == Response(0, "-", "", -1, "none", <<>>, NoRate, 0, FALSE)
NoReq == BaseReq("-")

JsonBare(status, error, stages, rate, errObj) ==
  [Response(status, "application/json", error, -1, "none", stages, rate, 0, errObj)
     EXCEPT !.cors = FALSE]

\* new Response(JSON.stringify({ error }), { status, headers: { ...corsHeaders,
\* 'Content-Type': 'application/json' } })
Json(status, error, stages, rate, errObj) ==
  Response(status, "application/json", error, -1, "none", stages, rate, 0, errObj)

\* what a handler returns: the response and the tables afterwards
Out(r, s, tl, ps) == [resp |-> r, store |-> s, tiles |-> tl, posters |-> ps]

(***************************************************************************)
(* supabase/functions/text-to-speech/index.ts                              *)
(***************************************************************************)
TtsCatch(stages, rate) ==
  Json(500, "Unable to generate speech. Please try again.", stages, rate, TRUE)

TtsRateLimitedNoRemaining(stages, rateCheck) ==
  Response(429, "application/json", "Rate limit exceeded. Please try again later.",
           -1, "none", stages, rateCheck, 0, FALSE)

TtsRateLimitedAfterCall(stages, rateCheck) ==
  Response(429, "application/json", "Rate limit exceeded. Please try again later.",
           0, "none", stages, rateCheck, 1, FALSE)

\* if (!rateCheck.allowed) return 429 { error, remaining: 0 }
TtsRateLimited(stages, rateCheck) ==
  Response(429, "application/json", "Rate limit exceeded. Please try again later.",
           0, "none", stages, rateCheck, 0, FALSE)

\* the handler from the line after `await checkRateLimit(...)` on, with the
\* tables as they are when it resumes
textToSpeechResumed(r, rateCheck, s, tl, ps) ==
    LET supabase == UserClient(r.cred)
        s2 == logRequest(r.cred, "text-to-speech", supabase, r.logFault, s, now)
        st3 == <<"parse", "auth", "rate">>
        st4 == Append(st3, "log")
        st5 == Append(st4, "config")
        st6 == Append(st5, "validate")
        st7 == Append(st6, "upstream")
    IN  IF rateCheck.threw
          THEN Out(TtsCatch(st3, rateCheck), s, tl, ps)
        ELSE IF ~rateCheck.allowed
          THEN Out(TtsRateLimited(st3, rateCheck), s, tl, ps)
        ELSE IF logRequestThrows(r.logFault)
          THEN Out(TtsCatch(st4, rateCheck), s, tl, ps)
        ELSE IF ~r.apiKey
          THEN Out(Json(500, "Speech service not configured. Contact administrator.",
                        st5, rateCheck, FALSE), s2, tl, ps)
        ELSE IF ~(TtsFields \subseteq r.body.has)       \* !text || !voiceId
          THEN Out(Json(400, "Missing required parameters: text and voiceId",
                        st6, rateCheck, FALSE), s2, tl, ps)
        ELSE IF r.upstream = "throw"                    \* fetch / arrayBuffer rejects
          THEN Out([TtsCatch(st7, rateCheck) EXCEPT !.calls = 1], s2, tl, ps)
        ELSE IF r.upstream = "http_error"               \* !response.ok
          THEN Out([Json(500, "Failed to generate audio. Please try again.",
                         st7, rateCheck, TRUE) EXCEPT !.calls = 1], s2, tl, ps)
        ELSE Out(Response(200, "audio/mpeg", "", -1, "audio", st7, rateCheck, 1, FALSE),
                 s2, tl, ps)

textToSpeech(r, s, tl, ps) ==
  IF r.method = "OPTIONS"
    THEN Out(Response(200, "-", "", -1, "none", <<>>, NoRate, 0, FALSE), s, tl, ps)
  ELSE IF ~r.body.json                                  \* await req.json() throws
    THEN Out(TtsCatch(<<"parse">>, NoRate), s, tl, ps)
  ELSE IF r.cred = NoUser                               \* authError || !user
    THEN Out(Json(401, "Unauthorized", <<"parse", "auth">>, NoRate, FALSE), s, tl, ps)
  ELSE
    textToSpeechResumed(
      r, checkRateLimit(r.cred, "text-to-speech", UserClient(r.cred), r.rlFault, s, now),
      s, tl, ps)

(***************************************************************************)
(* supabase/functions/ingestPoster/index.ts                                *)
(***************************************************************************)
\* crypto.randomUUID(): an id no object or row has yet
randomUUID(tl, ps) == Cardinality(tl \cup ps) + 1

AdminRoleAnyRow(r) == r.roleFault = "ok"

\* from('user_roles').select('role').eq('user_id', user.id).eq('role', 'admin')
\* .single(), with the service-role client: data is the row, or null when no
\* row matches or the lookup fails
AdminRole(r) == r.roleFault = "ok" /\ r.cred \in Admins

ingestPoster(r, s, tl, ps) ==
  IF r.method = "OPTIONS"
    THEN Out(Response(200, "-", "", -1, "none", <<>>, NoRate, 0, FALSE), s, tl, ps)
  ELSE IF r.cred = NoUser                               \* userError || !user
    THEN Out(Json(401, "Unauthorized", <<"auth">>, NoRate, FALSE), s, tl, ps)
  ELSE IF ~AdminRole(r)                                 \* !roles
    THEN Out(Json(403, "Forbidden - Admin access required", <<"auth", "role">>,
                  NoRate, FALSE), s, tl, ps)
  ELSE IF ~r.body.json                                  \* await req.json() throws
    THEN Out(Json(500, r.errText, <<"auth", "role", "parse">>, NoRate, TRUE), s, tl, ps)
  ELSE IF ~(IngestFields \subseteq r.body.has)          \* !title || !filename || !bytes
    THEN Out(Json(400, "Missing required fields", <<"auth", "role", "parse", "validate">>,
                  NoRate, FALSE), s, tl, ps)
  ELSE
    LET posterId == randomUUID(tl, ps)
        st5 == <<"auth", "role", "parse", "validate", "upload">>
        st6 == Append(st5, "insert")
    IN  IF r.upload # "ok"                              \* uploadError
          THEN Out(Json(500, r.errText, st5, NoRate, TRUE), s, tl, ps)
        ELSE IF r.insert # "ok"                         \* insertError
          THEN Out(Json(500, r.errText, st6, NoRate, TRUE), s, tl \cup {posterId}, ps)
        ELSE Out(Response(200, "application/json", "", -1, "queued", st6, NoRate, 0, FALSE),
                 s, tl \cup {posterId}, ps \cup {posterId})

(***************************************************************************)
(* The requests the model sends: every combination of the inputs a         *)
(* handler can read on some path, the inputs no path reads left at their   *)
(* BaseReq value.                                                          *)
(***************************************************************************)
TtsUpstreams ==
  {[upstream |-> "ok", errText |-> "e1"]}
    \cup {[upstream |-> k, errText |-> x] : k \in {"http_error", "throw"}, x \in ErrTexts}

TtsRequests ==
  LET B == BaseReq("text-to-speech")
  IN  {[B EXCEPT !.method = "OPTIONS"]}
        \cup {[B EXCEPT !.cred = c, !.errText = x] : c \in Creds, x \in ErrTexts}
        \cup {[B EXCEPT !.body = b] : b \in TtsBodies}
        \cup {[B EXCEPT !.cred = c, !.body = b, !.rlFault = f, !.logFault = g,
                        !.apiKey = FALSE] :
                c \in Subjects, b \in TtsBodies, f \in StoreFaults, g \in StoreFaults}
        \cup {[B EXCEPT !.cred = c, !.body = b, !.rlFault = f, !.logFault = g] :
                c \in Subjects, b \in TtsBodies \ {Body(TRUE, TtsFields)},
                f \in StoreFaults, g \in StoreFaults}
        \cup {[B EXCEPT !.cred = c, !.body = Body(TRUE, TtsFields), !.rlFault = f,
                        !.logFault = g, !.upstream = u.upstream, !.errText = u.errText] :
                c \in Subjects, f \in StoreFaults, g \in StoreFaults, u \in TtsUpstreams}

IngestRequests ==
  LET B == BaseReq("ingestPoster")
      Full == Body(TRUE, IngestFields)
  IN  {[B EXCEPT !.method = "OPTIONS"]}
        \cup {[B EXCEPT !.body = b] : b \in IngestBodies \cup {Malformed}}
        \cup {[B EXCEPT !.cred = c, !.body = b, !.roleFault = f] :
                c \in Subjects, b \in IngestBodies \cup {Malformed}, f \in {"ok", "error"}}
        \cup {[B EXCEPT !.cred = c, !.errText = x] : c \in Subjects, x \in ErrTexts}
        \cup {[B EXCEPT !.cred = c, !.body = Full, !.upload = "error", !.errText = x] :
                c \in Subjects, x \in ErrTexts}
        \cup {[B EXCEPT !.cred = c, !.body = Full, !.insert = "error", !.errText = x] :
                c \in Subjects, x \in ErrTexts}

\* the inputs each stage reads
StageReads(stage) ==
  CASE stage = "rate"     -> {"rlFault"}
    [] stage = "log"      -> {"logFault"}
    [] stage = "config"   -> {"apiKey"}
    [] stage = "upstream" -> {"upstream"}
    [] stage = "role"     -> {"roleFault"}
    [] stage = "upload"   -> {"upload"}
    [] stage = "insert"   -> {"insert"}
    [] OTHER              -> {}

\* the request as far as the handler read it
Consumed(r, rsp) ==
  LET read == {"handler", "method", "cred", "body"}
                \cup UNION {StageReads(rsp.stages[i]) : i \in DOMAIN rsp.stages}
                \cup (IF rsp.errObj THEN {"errText"} ELSE {})
  IN  [f \in DOMAIN r |-> IF f \in read THEN r[f] ELSE BaseReq(r.handler)[f]]

(***************************************************************************)
(* src/pages/OverlayCreator.tsx, handleSave: the canvas is uploaded to the  *)
(* bucket 'overlays' and then described by a row of public.overlays.        *)
(* An input is the form's state and what the collaborators do.              *)
(***************************************************************************)
NoPath == [theme |-> "-", year |-> 0, at |-> -1]

SaveInput(complete, blob, upload, zlookup, insert) ==
  [complete |-> complete, theme |-> "Routes", year |-> 1500,
   blob |-> blob, upload |-> upload, zlookup |-> zlookup, insert |-> insert]

\* the inputs a save can read, the ones no path reads left at "ok"
SaveInputs ==
  {SaveInput(FALSE, "ok", "ok", "ok", "ok"), SaveInput(TRUE, "throw", "ok", "ok", "ok"),
   SaveInput(TRUE, "ok", "error", "ok", "ok")}
    \cup {SaveInput(TRUE, "ok", "ok", z, i) : z \in {"ok", "error"}, i \in {"ok", "error"}}

\* what handleSave did: the last step it ran, the toast shown, the path it
\* built, the bucket and the table afterwards
SaveResult(i, step, toast, path, files, rows) ==
  [input |-> i, step |-> step, toast |-> toast, path |-> path,
   files |-> files, rows |-> rows]

NoSave ==
  SaveResult(SaveInput(FALSE, "ok", "ok", "ok", "ok"), "-", "none", NoPath, {}, {})

\* (maxZData?.z_index || -1) + 1, maxZData the row of greatest z_index, if any
nextZIndex(zlookup, rows) ==
  LET maxZ == IF zlookup = "ok" /\ rows # {}
                THEN CHOOSE z \in {r.z_index : r \in rows} :
                       \A r \in rows : r.z_index <= z
                ELSE 0
  IN  (IF maxZ # 0 THEN maxZ ELSE -1) + 1

handleSaveRollsBack(i, files, rows, t) ==
  LET filePath == [theme |-> i.theme, year |-> i.year, at |-> t]
  IN  IF ~i.complete THEN SaveResult(i, "form", "error", NoPath, files, rows)
      ELSE IF i.blob # "ok" THEN SaveResult(i, "blob", "error", NoPath, files, rows)
      ELSE IF i.upload # "ok" \/ filePath \in files
        THEN SaveResult(i, "upload", "error", filePath, files, rows)
      ELSE IF i.insert # "ok"
        THEN SaveResult(i, "insert", "error", filePath, files, rows)
      ELSE SaveResult(i, "insert", "success", filePath, files \cup {filePath},
                      rows \cup {[file_path |-> filePath,
                                  z_index |-> nextZIndex(i.zlookup, rows)]})

handleSave(i, files, rows, t) ==
  LET filePath == [theme |-> i.theme, year |-> i.year, at |-> t]  \* ..._${Date.now()}.png
  IN  IF ~i.complete                                    \* !theme || !year || !title
        THEN SaveResult(i, "form", "error", NoPath, files, rows)
      ELSE IF i.blob # "ok"                             \* fetch(dataUrl) / blob() rejects
        THEN SaveResult(i, "blob", "error", NoPath, files, rows)
      ELSE IF i.upload # "ok" \/ filePath \in files     \* uploadError (no upsert)
        THEN SaveResult(i, "upload", "error", filePath, files, rows)
      ELSE IF i.insert # "ok"                           \* dbError
        THEN SaveResult(i, "insert", "error", filePath, files \cup {filePath}, rows)
      ELSE SaveResult(i, "insert", "success", filePath, files \cup {filePath},
                      rows \cup {[file_path |-> filePath,
                                  z_index |-> nextZIndex(i.zlookup, rows)]})

(***************************************************************************)
(* src/components: the text removal tool and the image editor.  An image   *)
(* is ImageData: width, height and data, the flat RGBA array indexed from   *)
(* 0.  tool is the component's state: the loaded image's natural size, the  *)
(* canvas size the last resize set and which component set it, the image    *)
(* data kept for OCR, the detected text regions, and the working image      *)
(* after each region was inpainted.                                         *)
(***************************************************************************)
MAX_IMAGE_DIMENSION == 2560
EDITOR_MAX_IMAGE_DIMENSION == 1024

NoImage == [width |-> 0, height |-> 0, data |-> <<>>]

Tool(natural, by, canvas, original, textRegions, working) ==
  [natural |-> natural, by |-> by, canvas |-> canvas, original |-> original,
   textRegions |-> textRegions, working |-> working]

NoTool == Tool(<<0, 0>>, "-", <<0, 0>>, NoImage, <<>>, <<>>)

MathRoundDown(n, d) == n \div d

\* Math.round(n / d) for n >= 0, d > 0: the nearest integer, halves upwards
MathRound(n, d) == (2 * n + d) \div (2 * d)

\* the canvas size resizeImageIfNeeded sets, and whether it resized
resizeImageIfNeeded(cap, naturalWidth, naturalHeight) ==
  IF naturalWidth > cap \/ naturalHeight > cap
    THEN IF naturalWidth > naturalHeight
           THEN [width |-> cap, height |-> MathRound(naturalHeight * cap, naturalWidth),
                 resized |-> TRUE]
           ELSE [width |-> MathRound(naturalWidth * cap, naturalHeight), height |-> cap,
                 resized |-> TRUE]
    ELSE [width |-> naturalWidth, height |-> naturalHeight, resized |-> FALSE]

\* the index of pixel (sx, sy)'s red value: (sy * imgWidth + sx) * 4
Idx(img, sx, sy) == (sy * img.width + sx) * 4

\* the canvas content getImageData returns: width * height RGBA quadruples
Image(width, height, shade) ==
  [width |-> width, height |-> height,
   data |-> [i \in 0 .. (width * height * 4 - 1) |->
               (i * (60 + 7 * shade) + 13 * shade) % 256]]

\* a TextRegion: the bounding box of a word
Region(x, y, width, height) == [x |-> x, y |-> y, width |-> width, height |-> height]

InRegion(g, sx, sy) ==
  sx >= g.x /\ sx < g.x + g.width /\ sy >= g.y /\ sy < g.y + g.height

InBounds(img, sx, sy) == ~(sx < 0 \/ sy < 0 \/ sx >= img.width \/ sy >= img.height)

margin == 5

SampledAnywhere(img, g, px, py) ==
  {q \in {<<px + dx, py + dy>> : dx \in (0 - margin) .. margin, dy \in (0 - margin) .. margin} :
     InBounds(img, q[1], q[2])}

\* the pixels the two inner loops of inpaintRegion add up for pixel (px, py)
Sampled(img, g, px, py) ==
  {q \in {<<px + dx, py + dy>> : dx \in (0 - margin) .. margin, dy \in (0 - margin) .. margin} :
     ~InRegion(g, q[1], q[2]) /\ InBounds(img, q[1], q[2])}

RECURSIVE SumData(_, _, _)
\* the sum of channel ch over the pixels S of img
SumData(S, img, ch) ==
  IF S = {} THEN 0
  ELSE LET q == CHOOSE x \in S : TRUE
       IN  img.data[Idx(img, q[1], q[2]) + ch] + SumData(S \ {q}, img, ch)

\* an inpaintRegion that leaves the alpha channel as it was
inpaintRegionKeepsAlpha(img, g) ==
  [img EXCEPT !.data =
     [i \in DOMAIN img.data |->
        LET px == (i \div 4) % img.width
            py == (i \div 4) \div img.width
            ch == i % 4
            S == Sampled(img, g, px, py)
        IN  IF InRegion(g, px, py) /\ Cardinality(S) > 0 /\ ch # 3
              THEN MathRound(SumData(S, img, ch), Cardinality(S))
              ELSE img.data[i]]]

\* inpaintRegion(imageData, x, y, width, height): the image data afterwards.
\* It writes only pixels inside the region and reads only pixels outside it,
\* so what it reads is what the data held when it was called.
inpaintRegion(img, g) ==
  [img EXCEPT !.data =
     [i \in DOMAIN img.data |->
        LET px == (i \div 4) % img.width
            py == (i \div 4) \div img.width
            ch == i % 4
            S == Sampled(img, g, px, py)
        IN  IF InRegion(g, px, py) /\ Cardinality(S) > 0   \* if (count > 0)
              THEN IF ch = 3 THEN 255
                   ELSE MathRound(SumData(S, img, ch), Cardinality(S))
              ELSE img.data[i]]]

RECURSIVE InpaintEach(_, _, _)
\* textRegions.forEach(region => inpaintRegion(workingImageData, ...)): the
\* working image after each region, from the k-th on
InpaintEach(working, regions, k) ==
  IF k > Len(regions) THEN <<>>
  ELSE LET w == inpaintRegion(working, regions[k])
       IN  <<w>> \o InpaintEach(w, regions, k + 1)

\* the sizes of the small images whose pixels are followed
ImageSizes == {<<7, 1>>, <<3, 2>>}

\* the word boxes OCR may report
Regions == {Region(x, 0, w, h) : x \in -1 .. 1, w \in {1, 6}, h \in {1, 2}}

RECURSIVE RegionLists(_)
RegionLists(n) ==
  IF n = 0 THEN {<<>>}
  ELSE LET shorter == RegionLists(n - 1)
       IN  shorter \cup {Append(l, g) : l \in {x \in shorter : Len(x) = n - 1}, g \in Regions}

\* the side lengths of the images loaded
Sides == {1, 2, 1023, 1024, 1025, 1280, 2000, 2559, 2560, 2561, 4000, 5121}

(***************************************************************************)
(* State after deployment: empty tables, no request served yet.  rl, req   *)
(* and resp describe the operation just performed, and are blank after     *)
(* any other operation.                                                    *)
(***************************************************************************)
NoCall == [userId |-> NoUser, endpoint |-> "-", fault |-> "ok", result |-> FailOpen]

NoFlight == [calls |-> EmptyBag, admitted |-> EmptyBag]

\* a segmentation mask: a value in [0, 1] for each pixel, in MaskScale-ths
NoMask == <<>>

Masks(n) == [1 .. n -> 0 .. MaskScale]

\* a store into a Uint8ClampedArray
Clamp8(v) == IF v < 0 THEN 0 ELSE IF v > 255 THEN 255 ELSE v

Editor(image, mask, output, error) ==
  [image |-> image, mask |-> mask, output |-> output, error |-> error]

\* removeBackground with the mask's alpha the wrong way round
removeBackgroundOpaqueMask(image, mask) ==
  IF mask = NoMask
    THEN [output |-> NoImage, error |-> "Invalid segmentation result"]
    ELSE [output |->
            [image EXCEPT !.data =
               [j \in DOMAIN image.data |->
                  IF j % 4 = 3 /\ j \div 4 < Len(mask)
                    THEN Clamp8(MathRound(mask[j \div 4 + 1] * 255, MaskScale))
                    ELSE image.data[j]]],
          error |-> "-"]

\* removeBackground from the segmenter's result on: the output canvas's image
\* data, with data[i * 4 + 3] = Math.round((1 - mask.data[i]) * 255) for
\* every i below mask.data.length
removeBackground(image, mask) ==
  IF mask = NoMask
    THEN [output |-> NoImage, error |-> "Invalid segmentation result"]
    ELSE [output |->
            [image EXCEPT !.data =
               [j \in DOMAIN image.data |->
                  IF j % 4 = 3 /\ j \div 4 < Len(mask)
                    THEN Clamp8(MathRound((MaskScale - mask[j \div 4 + 1]) * 255, MaskScale))
                    ELSE image.data[j]]],
          error |-> "-"]

EditorSizes == {<<2, 1>>, <<1, 2>>}

NoEditor == Editor(NoImage, NoMask, NoImage, "-")

(***************************************************************************)
(* src/components/LoginGate.tsx.  gate holds the component's state (ready, *)
(* session), the session the auth client has now (backend), the            *)
(* getSession() call of the mount effect (pending: called, resolved with a *)
(* session, or done once its then-callback ran), the auth state changes    *)
(* the client has emitted and the listener has not yet been called with    *)
(* (inbox), and the event the listener was last called with.               *)
(***************************************************************************)
NoSession == "null"

Sessions == {"s1", "s2"}

Pending(at, session) == [at |-> at, session |-> session]

Gate(ready, session, backend, pending, inbox, lastEvent, toasts) ==
  [ready |-> ready, session |-> session, backend |-> backend, pending |-> pending,
   inbox |-> inbox, lastEvent |-> lastEvent, toasts |-> toasts]

\* what LoginGate returns
Render(g) ==
  IF ~g.ready THEN "Loading..."
  ELSE IF g.session = NoSession THEN "AuthForm"
  ELSE "children"

NoGate == Gate(FALSE, NoSession, NoSession, Pending("-", NoSession), <<>>, "-", 0)

(***************************************************************************)
(* src/components/RegistrationEditor.tsx.  Registration points are a       *)
(* function from the corners that are set to their coordinates; null is    *)
(* the function of no corner.  reg holds the component's state (points,    *)
(* currentPoint, saving), the points of the update that is on its way,     *)
(* the registration of the base-map record, the last toast and the last    *)
(* action.                                                                 *)
(***************************************************************************)
Corners == {"tl", "tr", "bl"}

NoPoints == <<>>

Coords == {<<0, 0>>, <<5, 3>>}

Reg(points, currentPoint, saving, request, record, toast, last) ==
  [points |-> points, currentPoint |-> currentPoint, saving |-> saving,
   request |-> request, record |-> record, toast |-> toast, last |-> last]

\* points?.tl && points?.tr && points?.bl
allPointsSet(points) == Corners \subseteq DOMAIN points

\* { ...prev, [currentPoint]: { x, y } }
SetPoint(prev, corner, p) ==
  [c \in DOMAIN prev \cup {corner} |-> IF c = corner THEN p ELSE prev[c]]

\* a click that sets the first point whatever is being set
handleCanvasClickAnytime(r, p) ==
  LET cur == IF r.currentPoint = "null" THEN "tl" ELSE r.currentPoint
  IN  [r EXCEPT !.points = SetPoint(r.points, cur, p),
                !.currentPoint = IF cur = "tl" THEN "tr"
                                 ELSE IF cur = "tr" THEN "bl"
                                 ELSE "null"]

handleCanvasClick(r, p) ==
  IF r.currentPoint = "null"                            \* if (!currentPoint) return
    THEN r
    ELSE [r EXCEPT !.points = SetPoint(r.points, r.currentPoint, p),
                   !.currentPoint = IF r.currentPoint = "tl" THEN "tr"
                                    ELSE IF r.currentPoint = "tr" THEN "bl"
                                    ELSE "null"]

handleReset(r) == [r EXCEPT !.points = NoPoints, !.currentPoint = "tl"]

\* handleSave up to its await: the guard, setSaving(true), the update sent
handleSaveRegistration(r) ==
  IF ~allPointsSet(r.points)
    THEN [r EXCEPT !.toast = "Please set all 3 registration points"]
    ELSE [r EXCEPT !.saving = TRUE, !.request = r.points, !.toast = "-"]

\* handleSave from the update's result on
handleSaveSettled(r, outcome) ==
  IF outcome = "ok"
    THEN [r EXCEPT !.record = r.request, !.request = NoPoints, !.saving = FALSE,
                   !.toast = "Registration points saved"]
    ELSE [r EXCEPT !.request = NoPoints, !.saving = FALSE,
                   !.toast = "Failed to save registration points"]

NoReg == Reg(NoPoints, "null", FALSE, NoPoints, NoPoints, "-", "closed")

\* everything but the pages with an editor or a gate
Deployed ==
  /\ now = 0
  /\ store = EmptyBag
  /\ rl = NoCall
  /\ tiles = {}
  /\ posters = {}
  /\ req = NoReq
  /\ resp = NoResp
  /\ sent = EmptyBag
  /\ overlayFiles = {}
  /\ overlays = {}
  /\ saved = NoSave
  /\ flight = NoFlight
  /\ archive = EmptyBag

\* no page with an editor or a gate is open
Closed ==
  /\ editor = NoEditor
  /\ gate = NoGate
  /\ reg = NoReg

Init ==
  /\ Deployed
  /\ Closed
  /\ tool = NoTool

\* the clock advances
Tick(d) ==
  /\ now + d <= MaxClock
  /\ now' = now + d
  /\ rl' = NoCall /\ req' = NoReq /\ resp' = NoResp
  /\ UNCHANGED <<store, tiles, posters, sent, flight, archive>>
  /\ UNCHANGED clientVars

\* a caller of the shared module logs a request
LogRequest(userId, endpoint, client, fault, max) ==
  /\ BagCardinality(store) < max
  /\ store' = logRequest(userId, endpoint, client, fault, store, now)
  /\ rl' = NoCall /\ req' = NoReq /\ resp' = NoResp
  /\ UNCHANGED <<now, tiles, posters, sent, flight>>
  /\ UNCHANGED clientVars

\* a caller of the shared module checks the limit, with the user's own client
CheckRateLimit(userId, endpoint, fault) ==
  /\ rl' = [userId |-> userId, endpoint |-> endpoint,
            fault |-> IF endpoint \in DOMAIN RATE_LIMITS THEN fault ELSE "ok",
            result |-> checkRateLimit(userId, endpoint, UserClient(userId), fault, store, now)]
  /\ req' = NoReq /\ resp' = NoResp
  /\ UNCHANGED <<now, store, tiles, posters, sent, flight, archive>>
  /\ UNCHANGED clientVars

\* the response, with what serving it changed
Served(out, s, tl, ps) ==
  [out.resp EXCEPT !.wrote = (out.store # s), !.uploaded = (out.tiles # tl),
                   !.inserted = (out.posters # ps)]

\* the text-to-speech handler serves request r
TtsRequest(r) ==
  LET out == textToSpeech(r, store, tiles, posters)
  IN  /\ resp' = Served(out, store, tiles, posters)
      /\ req' = Consumed(r, out.resp)
      /\ store' = out.store
      /\ rl' = NoCall
      /\ UNCHANGED <<now, tiles, posters, flight, archive>>
      /\ UNCHANGED clientVars

\* the ingestPoster handler serves request r
IngestRequest(r) ==
  LET out == ingestPoster(r, store, tiles, posters)
  IN  /\ out.tiles = tiles \/ Cardinality(tiles) < MaxTiles
      /\ resp' = Served(out, store, tiles, posters)
      /\ req' = Consumed(r, out.resp)
      /\ tiles' = out.tiles
      /\ posters' = out.posters
      /\ store' = out.store
      /\ rl' = NoCall
      /\ UNCHANGED <<now, sent, flight, archive>>
      /\ UNCHANGED clientVars

\* the user presses Save in the overlay creator
HandleSave(i) ==
  LET r == handleSave(i, overlayFiles, overlays, now)
  IN  /\ r.files = overlayFiles \/ Cardinality(overlayFiles) < MaxOverlayFiles
      /\ saved' = r
      /\ overlayFiles' = r.files
      /\ overlays' = r.rows
      /\ rl' = NoCall /\ req' = NoReq /\ resp' = NoResp
      /\ UNCHANGED <<now, store, tiles, posters, sent, flight, archive>>
      /\ UNCHANGED <<tool, editor, gate, reg>>

\* handleDetectText (text removal tool) up to the resize of its OCR canvas
OcrResize ==
  LET r == resizeImageIfNeeded(MAX_IMAGE_DIMENSION, tool.natural[1], tool.natural[2])
  IN  /\ tool' = [tool EXCEPT !.by = "ocr", !.canvas = <<r.width, r.height>>]
      /\ UNCHANGED serverVars
      /\ UNCHANGED <<overlayFiles, overlays, saved, editor, gate, reg>>

\* removeBackground (image editor) up to the resize of its canvas
EditorResize ==
  LET r == resizeImageIfNeeded(EDITOR_MAX_IMAGE_DIMENSION, tool.natural[1], tool.natural[2])
  IN  /\ tool' = [tool EXCEPT !.by = "editor", !.canvas = <<r.width, r.height>>]
      /\ UNCHANGED serverVars
      /\ UNCHANGED <<overlayFiles, overlays, saved, editor, gate, reg>>

\* the tool after handleDetectText: the OCR canvas was sized and drawn, its
\* image data kept, and the words OCR reported became the text regions
Detected(natural, shade, regions) ==
  LET r == resizeImageIfNeeded(MAX_IMAGE_DIMENSION, natural[1], natural[2])
  IN  Tool(natural, "ocr", <<r.width, r.height>>,
           Image(r.width, r.height, shade), regions, <<>>)

\* handleRemoveText: each region of a copy of the kept image data is inpainted
RemoveText ==
  /\ IF Len(tool.textRegions) = 0 \/ tool.original = NoImage
        THEN tool' = tool                               \* toast.error, return
        ELSE tool' = [tool EXCEPT !.working = InpaintEach(tool.original, tool.textRegions, 1)]
  /\ UNCHANGED serverVars
  /\ UNCHANGED <<overlayFiles, overlays, saved, editor, gate, reg>>

\* the image editor removes the background of the image on its canvas
RemoveBackground ==
  LET r == removeBackground(editor.image, editor.mask)
  IN  /\ editor.image # NoImage
      /\ editor' = [editor EXCEPT !.output = r.output, !.error = r.error]
      /\ UNCHANGED serverVars
      /\ UNCHANGED <<overlayFiles, overlays, saved, tool, gate, reg>>

gateFrame ==
  /\ UNCHANGED serverVars
  /\ UNCHANGED <<overlayFiles, overlays, saved, tool, editor, reg>>

\* the auth client signs a user in and emits SIGNED_IN
SignIn(s) ==
  /\ gate.pending.at # "-"
  /\ gate.backend = NoSession
  /\ Len(gate.inbox) < MaxInbox
  /\ gate' = [gate EXCEPT !.backend = s,
                          !.inbox = Append(@, [event |-> "SIGNED_IN", session |-> s])]
  /\ gateFrame

\* the auth client signs the user out and emits SIGNED_OUT
SignOut ==
  /\ gate.pending.at # "-"
  /\ gate.backend # NoSession
  /\ Len(gate.inbox) < MaxInbox
  /\ gate' = [gate EXCEPT !.backend = NoSession,
                          !.inbox = Append(@, [event |-> "SIGNED_OUT", session |-> NoSession])]
  /\ gateFrame

\* the listener given to onAuthStateChange is called with the oldest event
AuthStateChange ==
  /\ gate.inbox # <<>>
  /\ gate' = [gate EXCEPT !.session = Head(gate.inbox).session,
                          !.lastEvent = Head(gate.inbox).event,
                          !.toasts = IF Head(gate.inbox).event = "SIGNED_IN"
                                       THEN 1 ELSE 0,
                          !.inbox = Tail(@)]
  /\ gateFrame

\* getSession() resolves with the session the auth client has at that moment
GetSessionResolves ==
  /\ gate.pending.at = "called"
  /\ gate' = [gate EXCEPT !.pending = Pending("resolved", gate.backend)]
  /\ gateFrame

\* the then-callback of getSession() runs
GetSessionThen ==
  /\ gate.pending.at = "resolved"
  /\ gate' = [gate EXCEPT !.session = gate.pending.session,
                          !.ready = TRUE,
                          !.toasts = 0,
                          !.pending = Pending("done", NoSession)]
  /\ gateFrame

regFrame ==
  /\ UNCHANGED serverVars
  /\ UNCHANGED <<overlayFiles, overlays, saved, tool, editor, gate>>

\* the button "Start Setting Points", shown when !currentPoint && !allPointsSet
StartSettingPoints ==
  /\ reg.last # "closed"
  /\ reg.currentPoint = "null" /\ ~allPointsSet(reg.points)
  /\ reg' = [reg EXCEPT !.currentPoint = "tl", !.last = "start"]
  /\ regFrame

\* the button "Reset", disabled when !points
HandleReset ==
  /\ reg.last # "closed"
  /\ reg.points # NoPoints
  /\ reg' = [handleReset(reg) EXCEPT !.last = "reset"]
  /\ regFrame

\* a click on the canvas at p
HandleCanvasClick(p) ==
  /\ reg.last # "closed"
  /\ reg' = [handleCanvasClick(reg, p) EXCEPT !.last = "click"]
  /\ regFrame

\* the button "Save", disabled when !allPointsSet || saving
RegistrationSave ==
  /\ reg.last # "closed"
  /\ allPointsSet(reg.points) /\ ~reg.saving
  /\ reg' = [handleSaveRegistration(reg) EXCEPT !.last = "save"]
  /\ regFrame

\* the update of base_maps settles
RegistrationSettled(outcome) ==
  /\ reg.saving
  /\ reg' = [handleSaveSettled(reg, outcome) EXCEPT !.last = "settled"]
  /\ regFrame

ClientsOf(u) == {ServiceClient, UserClient(u)}

LogEndpoints == {"overlay-artist", "text-to-speech"}

(***************************************************************************)
(* Spec: the shared rate-limit module used directly, under a clock.        *)
(***************************************************************************)
Next ==
  \/ \E d \in ClockSteps : Tick(d)
  \/ \E u \in Subjects, e \in LogEndpoints, f \in StoreFaults : \E c \in ClientsOf(u) :
       LogRequest(u, e, c, f, MaxLog) /\ UNCHANGED archive
  \/ \E u \in Subjects, e \in Endpoints, f \in StoreFaults :
       CheckRateLimit(u, e, f)

Spec == Init /\ [][Next]_vars

(***************************************************************************)
(* SpecEdge: the two edge handlers, beside a service-role writer of        *)
(* request_logs for one subject.                                           *)
(***************************************************************************)
EdgeLogSubjects == {"u1"}

EdgeNext ==
  \/ \E r \in TtsRequests : TtsRequest(r) /\ UNCHANGED sent
  \/ \E r \in IngestRequests : IngestRequest(r)
  \/ \E u \in EdgeLogSubjects, f \in StoreFaults :
       LogRequest(u, "text-to-speech", ServiceClient, f, MaxLogEdge) /\ UNCHANGED archive

SpecEdge == Init /\ [][EdgeNext]_vars

(***************************************************************************)
(* SpecTts: the text-to-speech handler beside a service-role writer that   *)
(* can fill the subject's window to the limit.                             *)
(***************************************************************************)
TtsNext ==
  \/ \E r \in TtsRequests : TtsRequest(r) /\ UNCHANGED sent
  \/ \E u \in EdgeLogSubjects, f \in StoreFaults :
       LogRequest(u, "text-to-speech", ServiceClient, f, MaxLogTts) /\ UNCHANGED archive

SpecTts == Init /\ [][TtsNext]_vars

(***************************************************************************)
(* SpecE2E: users call the text-to-speech handler with their own           *)
(* credential, everything working, under a clock; request_logs is written  *)
(* by the handler alone.  sent records the authenticated requests of the   *)
(* trailing minute.                                                        *)
(***************************************************************************)
E2ERequests ==
  {r \in TtsRequests : /\ r.method = "POST" /\ r.cred \in Subjects /\ r.body.json
                       /\ r.rlFault = "ok" /\ r.logFault = "ok"
                       /\ r.apiKey /\ r.upstream = "ok"}

Record(h, u, t) ==
  LET keep == {x \in DOMAIN h : x.at >= t - 60000}
  IN  [x \in keep |-> h[x]] (+) SetToBag({[user |-> u, at |-> t]})

E2ENext ==
  \/ \E d \in ClockSteps : Tick(d)
  \/ \E r \in E2ERequests :
       /\ BagCardinality(sent) < MaxSent
       /\ TtsRequest(r)
       /\ sent' = Record(sent, r.cred, now)

SpecE2E == Init /\ [][E2ENext]_vars

(***************************************************************************)
(* SpecSweep: request_logs over hours: inserts by service-role and user     *)
(* clients while the clock advances by an hour, or an hour and a            *)
(* millisecond, at a time.                                                  *)
(***************************************************************************)
SweepSteps == {RetentionMs, RetentionMs + 1}

\* the clock advances by a long step
Elapse(d) ==
  /\ now + d <= MaxSweepClock
  /\ now' = now + d
  /\ rl' = NoCall /\ req' = NoReq /\ resp' = NoResp
  /\ UNCHANGED <<store, tiles, posters, sent, flight, archive>>
  /\ UNCHANGED clientVars

SweepNext ==
  \/ \E d \in SweepSteps : Elapse(d)
  \/ \E u \in Subjects, f \in StoreFaults : \E c \in ClientsOf(u) :
       LogRequest(u, "text-to-speech", c, f, MaxLogSweep) /\ UNCHANGED archive

SpecSweep == Init /\ [][SweepNext]_vars

(***************************************************************************)
(* SpecPersist: the two operations that store an artifact and then its      *)
(* metadata: ingestPoster and the overlay creator's save, under a clock.    *)
(***************************************************************************)
PersistNext ==
  \/ \E d \in ClockSteps : Tick(d)
  \/ \E r \in IngestRequests : IngestRequest(r)
  \/ \E i \in SaveInputs : HandleSave(i)

SpecPersist == Init /\ [][PersistNext]_vars

(***************************************************************************)
(* SpecResize: an image of some natural size is loaded, and the text        *)
(* removal tool or the image editor sizes its canvas for it.                *)
(***************************************************************************)
InitResize ==
  /\ Deployed
  /\ Closed
  /\ tool \in {Tool(<<w, h>>, "-", <<0, 0>>, NoImage, <<>>, <<>>) : w \in Sides, h \in Sides}

ResizeNext ==
  \/ OcrResize
  \/ EditorResize

SpecResize == InitResize /\ [][ResizeNext]_vars

(***************************************************************************)
(* SpecInpaint: the text removal tool on small images, from the state a    *)
(* text detection leaves: the text is removed.                              *)
(***************************************************************************)
InitInpaint ==
  /\ Deployed
  /\ Closed
  /\ tool \in {Detected(size, shade, regions) :
                 size \in ImageSizes, shade \in 1 .. MaxShades,
                 regions \in RegionLists(MaxRegions)}

InpaintNext == RemoveText

SpecInpaint == InitInpaint /\ [][InpaintNext]_vars

(***************************************************************************)
(* SpecSegment: the image editor with a small image on its canvas and the  *)
(* segmenter's mask for it: the background is removed.                     *)
(***************************************************************************)
InitSegment ==
  /\ Deployed
  /\ tool = NoTool
  /\ gate = NoGate
  /\ reg = NoReg
  /\ editor \in {Editor(Image(size[1], size[2], shade), mask, NoImage, "-") :
                   size \in EditorSizes, shade \in 1 .. MaxShades,
                   mask \in Masks(2) \cup {NoMask}}

SegmentNext == RemoveBackground

SpecSegment == InitSegment /\ [][SegmentNext]_vars

(***************************************************************************)
(* SpecFlight: invocations of the text-to-speech handler for one user run  *)
(* side by side: each checks the limit, and resumes later with the         *)
(* request_logs of that later moment.  A service-role writer can fill the  *)
(* user's window beside them.                                              *)
(***************************************************************************)
FlightRequests ==
  {r \in E2ERequests : r.cred \in EdgeLogSubjects /\ TtsFields \subseteq r.body.has}

\* an invocation reaches `await checkRateLimit(...)`, and the count is taken
TtsCheck(r) ==
  /\ BagCardinality(flight.calls) < MaxFlights
  /\ BagCardinality(flight.calls) + BagCardinality(flight.admitted) < MaxAdmitted
  /\ flight' = [flight EXCEPT !.calls = @ (+) SetToBag({
                  [req |-> r,
                   rateCheck |-> checkRateLimit(r.cred, "text-to-speech", UserClient(r.cred),
                                                r.rlFault, store, now)]})]
  /\ rl' = NoCall /\ req' = NoReq /\ resp' = NoResp
  /\ UNCHANGED <<now, store, tiles, posters, sent, archive>>
  /\ UNCHANGED clientVars

\* an invocation resumes after its check and runs to its response
TtsResume(c) ==
  LET out == textToSpeechResumed(c.req, c.rateCheck, store, tiles, posters)
  IN  /\ resp' = Served(out, store, tiles, posters)
      /\ req' = Consumed(c.req, out.resp)
      /\ store' = out.store
      /\ flight' = [calls |-> flight.calls (-) SetToBag({c}),
                    admitted |-> IF c.rateCheck.allowed /\ ~c.rateCheck.threw
                                   THEN Record(flight.admitted, c.req.cred, now)
                                   ELSE flight.admitted]
      /\ rl' = NoCall
      /\ UNCHANGED <<now, tiles, posters, sent, archive>>
      /\ UNCHANGED clientVars

FlightNext ==
  \/ \E r \in FlightRequests : TtsCheck(r)
  \/ \E c \in BagToSet(flight.calls) : TtsResume(c)
  \/ \E u \in EdgeLogSubjects, f \in StoreFaults :
       LogRequest(u, "text-to-speech", ServiceClient, f, MaxLogTts) /\ UNCHANGED archive

SpecFlight == Init /\ [][FlightNext]_vars

(***************************************************************************)
(* SpecRetain: request_logs under a clock that advances by minutes and by  *)
(* hours, beside archive, the rows ever inserted with none deleted.        *)
(***************************************************************************)
\* the insert of logRequest into a table from which nothing is deleted
Archived(a, userId, endpoint, client, fault, t) ==
  LET row == [user_id |-> userId, endpoint |-> endpoint, created_at |-> t]
  IN  IF fault = "ok" /\ RlsInsertAllowed(client, row)
        THEN a (+) SetToBag({row})
        ELSE a

RetainNext ==
  \/ \E d \in ClockSteps : Tick(d)
  \/ \E d \in SweepSteps : Elapse(d)
  \/ \E u \in Subjects, f \in StoreFaults : \E c \in ClientsOf(u) :
       /\ LogRequest(u, "text-to-speech", c, f, MaxLogSweep)
       /\ archive' = Archived(archive, u, "text-to-speech", c, f, now)

SpecRetain == Init /\ [][RetainNext]_vars

(***************************************************************************)
(* SpecGate: LoginGate from its mount on, beside an auth client whose      *)
(* users sign in and out.                                                  *)
(***************************************************************************)
InitGate ==
  /\ Deployed
  /\ tool = NoTool
  /\ editor = NoEditor
  /\ reg = NoReg
  /\ gate \in {Gate(FALSE, NoSession, b, Pending("called", NoSession), <<>>, "-", 0) :
                 b \in Sessions \cup {NoSession}}

GateNext ==
  \/ \E s \in Sessions : SignIn(s)
  \/ SignOut
  \/ AuthStateChange
  \/ GetSessionResolves
  \/ GetSessionThen

SpecGate == InitGate /\ [][GateNext]_vars

(***************************************************************************)
(* SpecReg: the registration editor opened for a base map with or without  *)
(* a registration, and used.                                               *)
(***************************************************************************)
Registrations == [Corners -> Coords]

InitReg ==
  /\ Deployed
  /\ tool = NoTool
  /\ editor = NoEditor
  /\ gate = NoGate
  /\ reg \in {Reg(existing, "null", FALSE, NoPoints, existing, "-", "open") :
                existing \in {NoPoints} \cup Registrations}

RegNext ==
  \/ StartSettingPoints
  \/ HandleReset
  \/ \E p \in Coords : HandleCanvasClick(p)
  \/ RegistrationSave
  \/ \E outcome \in {"ok", "error"} : RegistrationSettled(outcome)

SpecReg == InitReg /\ [][RegNext]_vars

(***************************************************************************)
(* Properties.                                                             *)
(***************************************************************************)
Handlers == {"text-to-speech", "ingestPoster"}

\* the rows of (u, e) in request_logs created at or after instant from
Logged(u, e, from) ==
  LET hit == {r \in DOMAIN store : r.user_id = u /\ r.endpoint = e /\ r.created_at >= from}
  IN  BagCardinality([r \in hit |-> store[r]])

\* the last operation was a check of an endpoint that has a policy
Checked == rl.endpoint \in PolicyEndpoints
CheckedMax == RATE_LIMITS[rl.endpoint].requests
\* the rows of the checked (subject, endpoint) inside the trailing window
CheckedInWindow ==
  Logged(rl.userId, rl.endpoint, now - RATE_LIMITS[rl.endpoint].window * 1000)

\* C1: with k rows of (S, E) logged inside the trailing window of E's policy
\* (max m), a check whose lookup succeeds returns allowed = TRUE when k < m, and
\* allowed = FALSE with remaining = 0 once k has reached m.
C1_AllowedBelowMaxDeniedAtMax ==
  (Checked /\ rl.fault = "ok") =>
     /\ CheckedInWindow < CheckedMax => rl.result.allowed
     /\ CheckedInWindow >= CheckedMax =>
          ~rl.result.allowed /\ rl.result.remaining = 0

C1_Witness ==
  /\ Checked /\ rl.fault = "ok"
  /\ CheckedInWindow = CheckedMax
  /\ ~rl.result.allowed /\ rl.result.remaining = 0

\* C2: a successful check counts exactly the rows of (S, E) whose created_at is
\* >= now - window: max - remaining is never more than those rows and equals
\* them up to max, so when every row of (S, E) is older than the window the
\* check returns allowed = TRUE with remaining = max.
C2_OnlyWindowRowsCounted ==
  (Checked /\ rl.fault = "ok") =>
     /\ CheckedMax - rl.result.remaining <= CheckedInWindow
     /\ CheckedInWindow <= CheckedMax =>
          CheckedMax - rl.result.remaining = CheckedInWindow
     /\ CheckedInWindow = 0 =>
          rl.result.allowed /\ rl.result.remaining = CheckedMax

C2_Witness ==
  /\ Checked /\ rl.fault = "ok"
  /\ Logged(rl.userId, rl.endpoint, 0) >= CheckedMax
  /\ CheckedInWindow = 0
  /\ rl.result.allowed /\ rl.result.remaining = CheckedMax

\* C3: when the lookup fails (returns an error or throws), checkRateLimit returns
\* allowed = TRUE and does not throw, whatever the subject has logged.
C3_FailOpen ==
  (Checked /\ rl.fault # "ok") => rl.result.allowed /\ ~rl.result.threw

C3_Witness ==
  /\ Checked /\ rl.fault = "throw"
  /\ CheckedInWindow >= CheckedMax
  /\ rl.result.allowed /\ ~rl.result.threw

\* C4: a request (other than the preflight) without a valid credential is
\* answered 401, whatever its body, and writes no request_logs row, no storage
\* object, no posters row, and makes no upstream call.
C4_UnauthenticatedIs401 ==
  (req.handler \in Handlers /\ req.method = "POST" /\ req.cred = NoUser) =>
     /\ resp.status = 401
     /\ ~resp.wrote /\ ~resp.uploaded /\ ~resp.inserted /\ resp.calls = 0

\* the checks of the documented order a request fails
Required(h) == IF h = "text-to-speech" THEN TtsFields ELSE IngestFields
FailsAuthenticate(r) == r.cred = NoUser
FailsAuthorize(r) == r.handler = "ingestPoster" /\ r.cred \notin Admins
FailsAdmission(r) ==
  /\ r.handler = "text-to-speech" /\ r.cred # NoUser
  /\ Logged(r.cred, "text-to-speech", now - RATE_LIMITS["text-to-speech"].window * 1000)
       >= RATE_LIMITS["text-to-speech"].requests
FailsValidate(r) == ~r.body.json \/ ~(Required(r.handler) \subseteq r.body.has)

FailedChecks(r) ==
  {c \in {"authenticate", "authorize", "admission", "validate"} :
     \/ c = "authenticate" /\ FailsAuthenticate(r)
     \/ c = "authorize" /\ FailsAuthorize(r)
     \/ c = "admission" /\ FailsAdmission(r)
     \/ c = "validate" /\ FailsValidate(r)}

EarliestStatus(r) ==
  IF FailsAuthenticate(r) THEN 401
  ELSE IF FailsAuthorize(r) THEN 403
  ELSE IF FailsAdmission(r) THEN 429
  ELSE 400

\* C5: a request that fails several of the checks authenticate, authorize,
\* admission, validate is answered with the status of the earliest one it fails
\* (401 before 403 before 429 before 400), and the stage that rejects is the last
\* stage run.
C5_EarliestFailingStage ==
  (req.handler \in Handlers /\ req.method = "POST" /\ Cardinality(FailedChecks(req)) >= 2) =>
     resp.status = EarliestStatus(req)

C7_DeniedIs429 ==
  ( /\ req.handler = "text-to-speech"
    /\ \E i \in DOMAIN resp.stages : resp.stages[i] = "rate"
    /\ ~resp.rate.allowed ) =>
     /\ resp.status = 429 /\ resp.ctype = "application/json"
     /\ resp.error # "" /\ resp.remaining = 0
     /\ resp.stages[Len(resp.stages)] = "rate"
     /\ ~resp.wrote /\ resp.calls = 0

C7_Witness ==
  /\ req.handler = "text-to-speech" /\ req.cred \in Subjects
  /\ Logged(req.cred, "text-to-speech", now - 60000) >= 20
  /\ ~resp.rate.allowed /\ resp.status = 429 /\ resp.remaining = 0
  /\ ~resp.wrote /\ resp.calls = 0

\* the authenticated text-to-speech requests of subject u in the trailing minute
SentInWindow(u) ==
  LET hit == {x \in DOMAIN sent : x.user = u /\ x.at >= now - 60000}
  IN  BagCardinality([x \in hit |-> sent[x]])

\* C8: a user who has sent 20 authenticated text-to-speech requests within 60
\* seconds is answered 429 on the next request in that window.
C8_TwentyFirstIs429 ==
  ( /\ req.handler = "text-to-speech" /\ req.cred # NoUser
    /\ SentInWindow(req.cred) > RATE_LIMITS["text-to-speech"].requests ) =>
     resp.status = 429

\* what the caller sees of a response
Visible(rsp) ==
  [status |-> rsp.status, cors |-> rsp.cors, ctype |-> rsp.ctype, error |-> rsp.error,
   remaining |-> rsp.remaining, payload |-> rsp.payload]

Serve(r, s, tl, ps) ==
  IF r.handler = "text-to-speech" THEN textToSpeech(r, s, tl, ps)
                                  ELSE ingestPoster(r, s, tl, ps)

\* C9: a response of status 500 is the same whatever the text of the underlying
\* error: the request that differs only in that text gets the same response.
C9_FailureBodyIsGeneric ==
  (req.handler \in Handlers /\ resp.status = 500) =>
     \A x \in ErrTexts :
        Visible(Serve([req EXCEPT !.errText = x], store, tiles, posters).resp)
          = Visible(resp)

\* an authenticated text-to-speech request with both fields, a configured key
\* and a working upstream
TtsGoodRequest ==
  /\ req.handler = "text-to-speech" /\ req.method = "POST" /\ req.cred # NoUser
  /\ req.body = Body(TRUE, TtsFields) /\ req.apiKey /\ req.upstream = "ok"

\* C10: for such a request the rate-limit store's failures never show: it is
\* answered 200 with audio whenever the lookup or the insert failed, it is
\* answered otherwise only by a 429 that a successful lookup at the limit
\* decided, below the limit every outcome of the lookup and of the insert gives
\* the response given, and logRequest never throws.
C10_StoreFailuresNotSurfaced ==
  /\ \A f \in StoreFaults : ~logRequestThrows(f)
  /\ TtsGoodRequest =>
       /\ (req.rlFault # "ok" \/ req.logFault # "ok") =>
            resp.status = 200 /\ resp.payload = "audio"
       /\ resp.status # 200 =>
            /\ resp.status = 429 /\ req.rlFault = "ok"
            /\ Logged(req.cred, "text-to-speech", now - 60000) >= 20
       /\ Logged(req.cred, "text-to-speech", now - 60000) < 20 =>
            \A f \in StoreFaults, g \in StoreFaults :
               Visible(textToSpeech([req EXCEPT !.rlFault = f, !.logFault = g],
                                    store, tiles, posters).resp) = Visible(resp)

C10_Witness ==
  /\ TtsGoodRequest
  /\ req.rlFault = "throw" /\ req.logFault = "throw"
  /\ Logged(req.cred, "text-to-speech", now - 60000) >= 20
  /\ resp.status = 200 /\ resp.payload = "audio"

\* a stage the response's handler ran
Ran(stage) == \E i \in DOMAIN resp.stages : resp.stages[i] = stage

\* C11: in ingestPoster an authenticated subject without an 'admin' row in
\* user_roles, or whose role lookup fails, is answered 403 with no object
\* uploaded and no posters row inserted; the upload and insert steps are reached
\* only for subjects holding the admin role.
C11_NonAdminIs403 ==
  (req.handler = "ingestPoster" /\ req.method = "POST" /\ req.cred # NoUser) =>
     /\ (req.cred \notin Admins \/ req.roleFault # "ok") =>
          /\ resp.status = 403
          /\ ~resp.uploaded /\ ~resp.inserted
          /\ ~Ran("upload") /\ ~Ran("insert")
     /\ (Ran("upload") \/ Ran("insert") \/ resp.uploaded \/ resp.inserted) =>
          req.cred \in Admins /\ req.roleFault = "ok"

C11_Witness ==
  /\ req.handler = "ingestPoster" /\ req.cred \in Subjects \ Admins
  /\ req.body = Body(TRUE, IngestFields) /\ req.roleFault = "ok"
  /\ resp.status = 403 /\ ~resp.uploaded /\ ~resp.inserted

\* the position of a stage among those the handler ran (0: not run)
StageAt(stage) ==
  IF Ran(stage) THEN CHOOSE i \in DOMAIN resp.stages : resp.stages[i] = stage ELSE 0

\* C12: the text-to-speech handler calls the upstream speech API at most once
\* per request, and only after authentication succeeded, the rate check
\* returned allowed and text and voiceId were both present; a request answered
\* 401, 429 or 400 made no upstream call.
C12_UpstreamOnceAfterChecks ==
  req.handler = "text-to-speech" =>
     /\ resp.calls \in {0, 1}
     /\ resp.calls = 1 <=> Ran("upstream")
     /\ resp.calls >= 1 =>
          /\ req.method = "POST" /\ req.cred # NoUser
          /\ resp.rate.allowed
          /\ TtsFields \subseteq req.body.has
          /\ 0 < StageAt("auth") /\ StageAt("auth") < StageAt("rate")
          /\ StageAt("rate") < StageAt("validate")
          /\ StageAt("validate") < StageAt("upstream")
     /\ resp.status \in {400, 401, 429} => resp.calls = 0

\* a call was made for a subject whose lookup failed at the limit, and failed
C12_Witness ==
  /\ req.handler = "text-to-speech" /\ req.cred \in Subjects
  /\ Logged(req.cred, "text-to-speech", now - 60000) >= 20
  /\ req.rlFault = "error" /\ req.upstream = "http_error"
  /\ resp.calls = 1 /\ resp.status = 500

\* request_logs holding subject u's full text-to-speech quota, logged just now
AtLimit(u) ==
  [r \in {[user_id |-> u, endpoint |-> "text-to-speech", created_at |-> now]} |->
     RATE_LIMITS["text-to-speech"].requests]

\* C13: every response of an edge handler carries the CORS headers: the one
\* just given, and the one either handler gives to any request, the
\* text-to-speech handler also when the subject is at its limit (429).
C13_EveryResponseHasCors ==
  /\ req.handler \in Handlers => resp.cors = corsHeaders
  /\ \A r \in IngestRequests : ingestPoster(r, store, tiles, posters).resp.cors = corsHeaders
  /\ \A r \in TtsRequests :
        /\ textToSpeech(r, store, tiles, posters).resp.cors = corsHeaders
        /\ r.cred # NoUser =>
             /\ textToSpeech(r, AtLimit(r.cred), tiles, posters).resp.cors = corsHeaders
             /\ r.rlFault = "ok" /\ r.body.json /\ r.method = "POST" =>
                  textToSpeech(r, AtLimit(r.cred), tiles, posters).resp.status = 429

\* the response of ingestPoster's catch-all path
C13_Witness ==
  /\ req.handler = "ingestPoster" /\ ~req.body.json
  /\ resp.status = 500 /\ resp.errObj /\ resp.stages[Len(resp.stages)] = "parse"
  /\ resp.cors = corsHeaders

\* the table s with every row's endpoint set to e
Relabel(s, e) ==
  LET rows == {[user_id |-> r.user_id, endpoint |-> e, created_at |-> r.created_at] :
                 r \in DOMAIN s}
  IN  [x \in rows |->
         BagCardinality([r \in {r \in DOMAIN s : /\ r.user_id = x.user_id
                                                  /\ r.created_at = x.created_at} |-> s[r]])]

\* C14: for an endpoint name with no entry in RATE_LIMITS checkRateLimit
\* returns allowed = TRUE and remaining = 999 without throwing, and returns the
\* same whatever the store would answer (result, error, exception) and whatever
\* it holds: the table as it is, the same rows under that endpoint's name, or
\* nothing.
C14_NoPolicyMeansUnlimited ==
  (rl.endpoint \in Endpoints \ PolicyEndpoints) =>
     /\ rl.result.allowed /\ rl.result.remaining = 999 /\ ~rl.result.threw
     /\ \A f \in StoreFaults, s \in {store, Relabel(store, rl.endpoint), EmptyBag} :
           checkRateLimit(rl.userId, rl.endpoint, UserClient(rl.userId), f, s, now)
             = rl.result

C14_Witness ==
  /\ rl.endpoint = "ingestPoster"
  /\ SelectCount(Relabel(store, rl.endpoint), rl.userId, rl.endpoint, now - 60000,
                 UserClient(rl.userId)) >= MaxLog
  /\ rl.result.allowed /\ rl.result.remaining = 999

\* C15: a successful lookup for an endpoint with a policy (max m) that finds
\* count rows in the window returns allowed = (count < m) and
\* remaining = max(0, m - count): remaining is within 0..m, and allowed holds
\* exactly when remaining > 0.
C15_AllowedAndRemaining ==
  (Checked /\ rl.fault = "ok") =>
     LET count == CheckedInWindow
         m == CheckedMax
     IN  /\ rl.result.allowed = (count < m)
         /\ rl.result.remaining = (IF m - count > 0 THEN m - count ELSE 0)
         /\ rl.result.remaining \in 0..m
         /\ rl.result.allowed <=> rl.result.remaining > 0

\* more rows in the window than the policy allows
C15_Witness ==
  /\ Checked /\ rl.fault = "ok"
  /\ CheckedInWindow > CheckedMax
  /\ ~rl.result.allowed /\ rl.result.remaining = 0

\* an insert has completed at the present instant
JustInserted == \E r \in DOMAIN store : r.created_at = now

\* C16: every insert into request_logs runs the retention sweep: once an insert
\* has completed no row is more than one hour older than the present time, and
\* the step that inserts adds its one row and removes no row younger than one
\* hour.
C16_InsertSweepsOldRows ==
  /\ [](JustInserted => \A r \in DOMAIN store : ~(r.created_at < now - RetentionMs))
  /\ [][store' # store =>
          /\ \A r \in DOMAIN store :
                r.created_at > now - RetentionMs => CopiesIn(r, store') >= CopiesIn(r, store)
          /\ \E u \in Subjects :
                LET row == [user_id |-> u, endpoint |-> "text-to-speech", created_at |-> now]
                IN  CopiesIn(row, store') = CopiesIn(row, store) + 1
          /\ \A r \in DOMAIN store' : ~(r.created_at < now - RetentionMs)]_vars

\* after an insert two hours and a millisecond in: the row logged exactly one
\* hour ago is still there beside the new one
C16_Witness ==
  /\ now > 2 * RetentionMs
  /\ JustInserted
  /\ \E r \in DOMAIN store : r.created_at = now - RetentionMs
  /\ \A r \in DOMAIN store : r.created_at >= now - RetentionMs

\* C17: storing an artifact is two writes with no rollback.  When ingestPoster's
\* upload succeeded and its posters insert failed, the response is an error
\* (500) and the object is in the bucket with no posters row for it; when the
\* overlay creator's upload succeeded and its overlays insert failed, the save
\* reports an error and the file is in the bucket with no overlays row
\* referring to it.
C17_UploadKeptWhenInsertFails ==
  /\ (req.handler = "ingestPoster" /\ Ran("insert") /\ req.insert # "ok") =>
        /\ resp.status = 500 /\ resp.error # ""
        /\ resp.uploaded /\ ~resp.inserted
        /\ tiles \ posters # {}
  /\ (saved.step = "insert" /\ saved.input.insert # "ok") =>
        /\ saved.toast = "error"
        /\ saved.path \in overlayFiles
        /\ saved.path \notin {r.file_path : r \in overlays}

\* both operations have left an object without its row
C17_Witness ==
  /\ tiles \ posters # {}
  /\ saved.step = "insert" /\ saved.toast = "error" /\ saved.input.insert = "error"
  /\ saved.path \in overlayFiles
  /\ saved.path \notin {r.file_path : r \in overlays}

\* r is an integer nearest to n / d
Nearest(r, n, d) == 2 * r * d - 2 * n \in (0 - d) .. d

\* C18: the OCR downscale with cap 2560 leaves a size unchanged when both
\* sides are at most the cap; otherwise the longer side becomes the cap and
\* the other side the rounded value of other * cap / longer; 4000 x 2000
\* becomes 2560 x 1280.
C18_DownscaleToCap ==
  tool.by = "ocr" =>
     LET w == tool.natural[1]
         h == tool.natural[2]
         cw == tool.canvas[1]
         ch == tool.canvas[2]
     IN  /\ (w <= 2560 /\ h <= 2560) => (cw = w /\ ch = h)
         /\ (w > 2560 \/ h > 2560) =>
              /\ w >= h => (cw = 2560 /\ Nearest(ch, h * 2560, w))
              /\ h >= w => (ch = 2560 /\ Nearest(cw, w * 2560, h))
         /\ (w = 4000 /\ h = 2000) => (cw = 2560 /\ ch = 1280)

C18_Witness ==
  /\ tool.by = "ocr"
  /\ tool.natural = <<4000, 2000>>
  /\ tool.canvas = <<2560, 1280>>

\* the pixels within distance 5 of (px, py), in x and in y, that lie inside the
\* image and outside every region of gs
Qualifying(img, gs, px, py) ==
  {q \in ((px - 5) .. (px + 5)) \X ((py - 5) .. (py + 5)) :
     /\ q[1] >= 0 /\ q[1] < img.width /\ q[2] >= 0 /\ q[2] < img.height
     /\ \A g \in gs : ~InRegion(g, q[1], q[2])}

\* the pixels of img
PixelsOf(img) == (0 .. (img.width - 1)) \X (0 .. (img.height - 1))

\* C19: after one region of an image was inpainted, every pixel of the image
\* inside the region's box has, on each colour channel, the rounded average of
\* that channel over the pixels within distance 5 that are inside the image and
\* outside the region; every such pixel has been given such a value.
C19_EveryRegionPixelAveraged ==
  (Len(tool.textRegions) = 1 /\ Len(tool.working) = 1) =>
     LET g == tool.textRegions[1]
         o == tool.original
         w == tool.working[1]
     IN  \A p \in PixelsOf(o) :
            InRegion(g, p[1], p[2]) =>
               LET Q == Qualifying(o, {g}, p[1], p[2])
               IN  /\ Q # {}
                   /\ \A ch \in 0 .. 2 :
                         Nearest(w.data[Idx(o, p[1], p[2]) + ch],
                                 SumData(Q, o, ch), Cardinality(Q))

\* the image inpaintRegion is given for the k-th region
GivenFor(k) == IF k = 1 THEN tool.original ELSE tool.working[k - 1]

\* C20: while the text regions are removed one after another, every pixel
\* sampled to fill a pixel of a region lies inside the image and outside every
\* detected region, and holds the value it has in the original image.
C20_SamplesOutsideEveryRegion ==
  \A k \in 1 .. Len(tool.working) :
     LET g == tool.textRegions[k]
         img == GivenFor(k)
     IN  \A p \in PixelsOf(img) :
            InRegion(g, p[1], p[2]) =>
               \A q \in Sampled(img, g, p[1], p[2]) :
                  /\ InBounds(tool.original, q[1], q[2])
                  /\ \A j \in 1 .. Len(tool.textRegions) :
                        ~InRegion(tool.textRegions[j], q[1], q[2])
                  /\ \A ch \in 0 .. 2 :
                        img.data[Idx(img, q[1], q[2]) + ch]
                          = tool.original.data[Idx(img, q[1], q[2]) + ch]

\* C21: the region fill is idempotent: inpainting a region again, in the image
\* its own inpainting produced, changes no pixel.
C21_FillIsIdempotent ==
  \A k \in 1 .. Len(tool.working) :
     inpaintRegion(tool.working[k], tool.textRegions[k]) = tool.working[k]

\* a fill that changed the image, and changes nothing when repeated
C21_Witness ==
  /\ Len(tool.working) = 1
  /\ tool.working[1] # tool.original
  /\ inpaintRegion(tool.working[1], tool.textRegions[1]) = tool.working[1]

\* the value a/MaskScale-th mask value gives: the integer nearest to
\* (1 - m) * 255, the upper one of two equally near
NearestAlpha(m) ==
  CHOOSE a \in -1 .. 256 :
    /\ 2 * (a * MaskScale - (MaskScale - m) * 255) <= MaskScale
    /\ 2 * (a * MaskScale - (MaskScale - m) * 255) > -MaskScale

\* C22: background segmentation gives pixel i the alpha round((1 - mask[i]) * 255),
\* which is 255 for mask 0, 0 for mask 1, 128 for mask 0.5 and always within
\* 0..255, and leaves the pixel's colour channels as they were.
C22_AlphaFromMask ==
  editor.output # NoImage =>
    \A i \in 1 .. Len(editor.mask) :
      LET m == editor.mask[i]
          alpha == editor.output.data[(i - 1) * 4 + 3]
      IN  /\ alpha = NearestAlpha(m)
          /\ alpha \in 0 .. 255
          /\ m = 0 => alpha = 255
          /\ m = MaskScale => alpha = 0
          /\ 2 * m = MaskScale => alpha = 128
          /\ \A ch \in 0 .. 2 :
               editor.output.data[(i - 1) * 4 + ch] = editor.image.data[(i - 1) * 4 + ch]

C22_Witness ==
  /\ editor.output # NoImage
  /\ editor.mask = <<MaskScale \div 2, 0>>
  /\ editor.output.data[3] = 128 /\ editor.output.data[7] = 255
  /\ editor.image.data[3] # 128

\* the invocations of subject u admitted past the rate check in the trailing minute
AdmittedInWindow(u) ==
  LET hit == {x \in DOMAIN flight.admitted : x.user = u /\ x.at >= now - 60000}
  IN  BagCardinality([x \in hit |-> flight.admitted[x]])

\* C23: however concurrent text-to-speech invocations of one user interleave
\* their checks and their log inserts, no more than 20 of them are admitted past
\* the rate check within 60 seconds.
C23_AdmittedWithinLimit ==
  \A u \in Subjects : AdmittedInWindow(u) <= RATE_LIMITS["text-to-speech"].requests

\* C24: an overlay saved while the lookup of the greatest z_index works gets
\* a z_index greater than that of every overlay stored before it, so no two
\* overlays of the base map share a stacking order.
C24_NewOverlayOnTop ==
  (saved.toast = "success" /\ saved.input.zlookup = "ok") =>
     \A new \in overlays, old \in overlays :
        (new.file_path = saved.path /\ old.file_path # saved.path) =>
           new.z_index > old.z_index

\* C25: every policy window is shorter than the retention, and checkRateLimit
\* returns for every subject, endpoint and client the same result on the swept
\* request_logs as on the rows ever inserted.
C25_SweepKeepsDecisions ==
  /\ \A e \in DOMAIN RATE_LIMITS : RATE_LIMITS[e].window * 1000 < RetentionMs
  /\ \A u \in Subjects, e \in Endpoints : \A c \in ClientsOf(u) :
       checkRateLimit(u, e, c, "ok", store, now) = checkRateLimit(u, e, c, "ok", archive, now)

\* rows were swept, and the subject's window is not empty
C25_Witness ==
  /\ store # archive
  /\ checkRateLimit("u1", "text-to-speech", ServiceClient, "ok", store, now).remaining
       < RATE_LIMITS["text-to-speech"].requests - 1
  /\ checkRateLimit("u1", "text-to-speech", ServiceClient, "ok", store, now)
       = checkRateLimit("u1", "text-to-speech", ServiceClient, "ok", archive, now)

\* C26: LoginGate shows its children only once the initial check completed and
\* never when the last auth event it was told of is a sign-out, and when
\* nothing the auth client reported is still on its way the session it holds
\* is the auth client's session.
C26_GateFollowsBackend ==
  /\ Render(gate) = "children" => gate.pending.at = "done"
  /\ Render(gate) = "children" => gate.lastEvent # "SIGNED_OUT"
  /\ (gate.pending.at = "done" /\ gate.inbox = <<>>) => gate.session = gate.backend

\* the point set after corner c
NextCorner(c) == IF c = "tl" THEN "tr" ELSE IF c = "tr" THEN "bl" ELSE "null"

\* C27: the base-map record's registration is written only with all three
\* points set; a click sets the point being set and moves on in the order tl,
\* tr, bl; a click while no point is being set changes no point.
C27_RegistrationWrites ==
  /\ [](reg.record # NoPoints => allPointsSet(reg.record))
  /\ [][ /\ reg'.record # reg.record =>
              /\ allPointsSet(reg.request) /\ reg'.record = reg.request
              /\ reg'.last = "settled"
         /\ (reg'.last = "click" /\ reg.currentPoint = "null") =>
              reg'.points = reg.points /\ reg'.currentPoint = "null"
         /\ (reg'.last = "click" /\ reg.currentPoint # "null") =>
              /\ DOMAIN reg'.points = DOMAIN reg.points \cup {reg.currentPoint}
              /\ \A c \in DOMAIN reg.points \ {reg.currentPoint} :
                    reg'.points[c] = reg.points[c]
              /\ reg'.currentPoint = NextCorner(reg.currentPoint)
              /\ reg.points = NoPoints => reg.currentPoint = "tl" ]_vars

\* a registration of three points was written, and a click afterwards, with
\* no point being set, changed nothing
C27_Witness ==
  /\ reg.record = [c \in Corners |-> <<5, 3>>]
  /\ reg.points = reg.record
  /\ reg.toast = "Registration points saved"
  /\ reg.currentPoint = "null"
  /\ reg.last = "click"

\* C28: for an image of width and height at least 1, the canvas size
\* resizeImageIfNeeded sets has both sides at least 1 and at most the cap: 2560
\* in the text removal tool, 1024 in the image editor.
C28_SidesWithinCap ==
  (tool.by # "-" /\ tool.natural[1] >= 1 /\ tool.natural[2] >= 1) =>
     LET cap == IF tool.by = "ocr" THEN MAX_IMAGE_DIMENSION ELSE EDITOR_MAX_IMAGE_DIMENSION
     IN  /\ tool.canvas[1] \in 1 .. cap
         /\ tool.canvas[2] \in 1 .. cap

\* C29: inpaintRegion changes no channel of a pixel outside the region's box,
\* gives alpha 255 to every pixel it writes, keeps the size of the image data,
\* and reads only pixels of the image, also for a box that reaches outside the
\* image.
C29_WritesInsideRegionOnly ==
  \A k \in 1 .. Len(tool.working) :
     LET g == tool.textRegions[k]
         a == GivenFor(k)
         w == tool.working[k]
     IN  /\ w.width = a.width /\ w.height = a.height
         /\ DOMAIN w.data = DOMAIN a.data
         /\ \A p \in PixelsOf(a) :
              LET i == Idx(a, p[1], p[2])
              IN  /\ ~InRegion(g, p[1], p[2]) =>
                       \A ch \in 0 .. 3 : w.data[i + ch] = a.data[i + ch]
                  /\ (InRegion(g, p[1], p[2]) /\ Qualifying(a, {g}, p[1], p[2]) # {}) =>
                       w.data[i + 3] = 255
                  /\ (\E ch \in 0 .. 3 : w.data[i + ch] # a.data[i + ch]) =>
                       w.data[i + 3] = 255
                  /\ \A q \in Sampled(a, g, p[1], p[2]) :
                       /\ q \in PixelsOf(a)
                       /\ \A ch \in 0 .. 3 : Idx(a, q[1], q[2]) + ch \in DOMAIN a.data

\* a box that reaches outside the image on both sides was filled
C29_Witness ==
  /\ Len(tool.working) = 1
  /\ tool.textRegions[1] = Region(-1, 0, 6, 1)
  /\ tool.original.width = 3
  /\ tool.working[1] # tool.original
  /\ \A x \in 0 .. 2 : tool.working[1].data[Idx(tool.original, x, 0) + 3] = 255
  /\ \A x \in 0 .. 2 : \A ch \in 0 .. 3 :
        tool.working[1].data[Idx(tool.original, x, 1) + ch]
          = tool.original.data[Idx(tool.original, x, 1) + ch]

\* request_logs without every row of another subject, of another endpoint, or
\* older than the trailing window of e's policy
OwnInWindow(u, e) ==
  LET keep == {r \in DOMAIN store :
                 /\ r.user_id = u /\ r.endpoint = e
                 /\ r.created_at >= now - RATE_LIMITS[e].window * 1000}
  IN  [r \in keep |-> store[r]]

\* C30: what checkRateLimit returns for subject S and endpoint E is what it
\* returns when request_logs holds the in-window rows of S and E only: rows of
\* another subject, or of S for another endpoint, change neither allowed nor
\* remaining.
C30_IsolatedPerSubjectAndEndpoint ==
  /\ \A u \in Subjects, e \in PolicyEndpoints : \A c \in ClientsOf(u) :
        checkRateLimit(u, e, c, "ok", store, now)
          = checkRateLimit(u, e, c, "ok", OwnInWindow(u, e), now)
  /\ (Checked /\ rl.fault = "ok") =>
        rl.result = checkRateLimit(rl.userId, rl.endpoint, UserClient(rl.userId), "ok",
                                   OwnInWindow(rl.userId, rl.endpoint), now)

\* a check of u1 for overlay-artist counted u1's rows for it, beside rows of
\* u2 for the endpoint and rows of u1 for another endpoint
C30_Witness ==
  /\ Checked /\ rl.fault = "ok"
  /\ rl.userId = "u1" /\ rl.endpoint = "overlay-artist"
  /\ CheckedInWindow > 0
  /\ Logged("u2", "overlay-artist", now - 60000) > 0
  /\ Logged("u1", "text-to-speech", now - 60000) > 0
  /\ rl.result.remaining = CheckedMax - CheckedInWindow

====
